---- MODULE Spec2Model ----
(***************************************************************************)
(* Model of the load-test scheduler (runLoadTest / processQueue /          *)
(* loadTestUrl) and of the statistics aggregator                           *)
(* (calculateLoadTestSummary) of src/index.ts.                             *)
(*                                                                         *)
(* The scheduler runs on the JavaScript event loop: synchronous code and   *)
(* promise reactions (microtasks) run to completion before the next I/O    *)
(* completion is delivered and before the wall clock is observed to move.  *)
(***************************************************************************)
EXTENDS Integers, Sequences, FiniteSets, TLC

VARIABLES
  urls,            \* runLoadTest argument: the URL list
  concurrency,     \* const concurrency     (index.ts:348)
  requestsPerUrl,  \* const requestsPerUrl  (index.ts:349)
  duration,        \* const duration, seconds; 0 stands for every falsy value (index.ts:350)
  requestQueue,    \* const requestQueue    (index.ts:366)
  results,         \* const results         (index.ts:361)
  requestsMade,    \* let requestsMade      (index.ts:363)
  testStartTime,   \* const testStartTime   (index.ts:362)
  activeRequests,  \* const activeRequests  (index.ts:375), promises named by queue position
  req,             \* per queue item: its request promise, its startTime, the transport's outcome
  reacted,         \* request promises whose settle reactions (finally, race/all) have run
  idx,             \* position of the for-of iterator over requestQueue (index.ts:377)
  pc,              \* where processQueue / runLoadTest stands
  awaited,         \* the promises handed to the pending Promise.race / Promise.all
  now,             \* Date.now(), milliseconds
  testEndTime,     \* const testEndTime     (index.ts:423)
  summary,         \* <<>> until computed, then <<LoadTestSummary>> (index.ts:427)
  visitedSitemaps, \* the Set passed to extractUrlsFromSitemap (index.ts:37, 237)
  stack,           \* the active calls of extractUrlsFromSitemap, innermost last
  fetched,         \* the sitemap URLs requested with axios.get, in order (index.ts:47)
  served,          \* the document each of these requests ended in
  extractedUrls,   \* const urls of the scrape command (index.ts:237)
  spc,             \* where the scrape command stands
  scanI,           \* the 404 scan's loop index i, counted from 1 (index.ts:248)
  notFoundUrls,    \* const notFoundUrls (index.ts:246)
  heads,           \* the HEAD probes made: URL, outcome, what checkPageExist did
  scanLog,         \* the scan's console lines: URL and verdict (index.ts:254-259)
  notFoundFile     \* <<>> until output/404-pages.json is written, then <<its list>>

loadVars == <<urls, concurrency, requestsPerUrl, duration, requestQueue, results,
              requestsMade, testStartTime, activeRequests, req, reacted, idx, pc,
              awaited, now, testEndTime, summary>>

scrapeVars == <<visitedSitemaps, stack, fetched, served, extractedUrls, spc,
                scanI, notFoundUrls, heads, scanLog, notFoundFile>>

vars == <<loadVars, scrapeVars>>

----------------------------------------------------------------------------
(* Bounds of the model *)

MaxQueue == 3
MaxConcurrency == 2
MaxDuration == 1
MaxClock == 1
MaxResults == 2
MaxResponseTime == 2

(* Program constants *)

DefaultConcurrency == 10
DefaultRequestsPerUrl == 1
MsPerSec == 1000
SuccessLow == 200
SuccessHigh == 400

\* the URL lists of the model: k distinct opaque page URLs
Url(j) == "https://example.com/" \o ToString(j)
UrlList(k) == [j \in 1..k |-> Url(j)]
Statuses == {200, 404}

----------------------------------------------------------------------------
(* JavaScript numbers, as far as the aggregator needs them: a finite value *)
(* is the reduced fraction n/d with d > 0; d = 0 encodes the non-finite    *)
(* values: 1/0 = Infinity, -1/0 = -Infinity, 0/0 = NaN.                    *)

Abs(i) == IF i < 0 THEN -i ELSE i

RECURSIVE Gcd(_, _)
Gcd(a, b) == IF b = 0 THEN a ELSE Gcd(b, a % b)

Sign(i) == IF i > 0 THEN 1 ELSE IF i < 0 THEN -1 ELSE 0

Frac(n, d) ==
  IF d = 0 THEN [n |-> Sign(n), d |-> 0]
  ELSE LET g == Gcd(Abs(n), Abs(d))
       IN  [n |-> Sign(d) * (n \div g), d |-> Abs(d) \div g]

NumInt(i) == [n |-> i, d |-> 1]
NaN == [n |-> 0, d |-> 0]
Infinity == [n |-> 1, d |-> 0]
NegInfinity == [n |-> -1, d |-> 0]
IsFinite(x) == x.d # 0
IsNaN(x) == x = NaN

\* x / y
JsDiv(x, y) ==
  IF IsNaN(x) \/ IsNaN(y) THEN NaN
  ELSE IF IsFinite(x) /\ IsFinite(y) THEN Frac(x.n * y.d, x.d * y.n)
  ELSE IF IsFinite(y) THEN [n |-> x.n * (IF y.n < 0 THEN -1 ELSE 1), d |-> 0]
  ELSE IF IsFinite(x) THEN NumInt(0)
  ELSE NaN

\* x < y on non-NaN values
NumLess(x, y) ==
  IF IsFinite(x) /\ IsFinite(y) THEN x.n * y.d < y.n * x.d
  ELSE IF IsFinite(x) THEN y = Infinity
  ELSE IF IsFinite(y) THEN x = NegInfinity
  ELSE x = NegInfinity /\ y = Infinity

\* a number is falsy when it is 0 or NaN
Falsy(x) == IsNaN(x) \/ x = NumInt(0)

\* x || dflt
JsOr(x, dflt) == IF Falsy(x) THEN dflt ELSE x

----------------------------------------------------------------------------
(* The HTTP transport's outcome of one GET: a completed response with a    *)
(* status (validateStatus accepts every status), or a thrown value, which  *)
(* is an Error with a message or something else.                           *)

Response(s) == [kind |-> "response", status |-> s, isError |-> FALSE, message |-> ""]
Thrown(isErr, msg) == [kind |-> "throw", status |-> 0, isError |-> isErr, message |-> msg]
NoOutcome == [kind |-> "none", status |-> 0, isError |-> FALSE, message |-> ""]

\* what axios.get ends in: a response, or a rejection with an Error
Outcomes ==
  {Response(s) : s \in Statuses}
    \cup {Thrown(TRUE, "timeout of 15000ms exceeded")}

\* every value the catch clause of loadTestUrl can receive: also an Error
\* whose message is empty (an AggregateError of a refused connection) and a
\* thrown value that is no Error
AllOutcomes == Outcomes \cup {Thrown(TRUE, ""), Thrown(FALSE, "")}

\* mutant: the upper limit of the success range is missing
IsSuccessStatusNoUpper(s) == s >= SuccessLow

\* response.status >= 200 && response.status < 400
IsSuccessStatus(s) == s >= SuccessLow /\ s < SuccessHigh

\* error instanceof Error ? error.message : "Unknown error"
ErrorMessage(o) == IF o.isError THEN o.message ELSE "Unknown error"

\* The LoadTestResult loadTestUrl returns for a GET started at startTime whose
\* outcome o arrives at time t. An absent optional field is the empty sequence.
loadTestUrl(url, startTime, o, t) ==
  IF o.kind = "response"
  THEN [url |-> url, success |-> IsSuccessStatus(o.status),
        statusCode |-> <<o.status>>, responseTime |-> t - startTime,
        error |-> <<>>, timestamp |-> t]
  ELSE [url |-> url, success |-> FALSE,
        statusCode |-> <<>>, responseTime |-> t - startTime,
        error |-> <<ErrorMessage(o)>>, timestamp |-> t]

----------------------------------------------------------------------------
(* calculateLoadTestSummary *)

RECURSIVE SumSeq(_)
\* responseTimes.reduce((a, b) => a + b, 0)
SumSeq(s) == IF s = <<>> THEN 0 ELSE SumSeq(SubSeq(s, 1, Len(s) - 1)) + s[Len(s)]

RECURSIVE MathMin(_)
\* Math.min(...xs): Infinity for no argument
MathMin(s) ==
  IF s = <<>> THEN Infinity
  ELSE LET m == MathMin(SubSeq(s, 1, Len(s) - 1))
           x == NumInt(s[Len(s)])
       IN  IF NumLess(x, m) THEN x ELSE m

RECURSIVE MathMax(_)
\* Math.max(...xs): -Infinity for no argument
MathMax(s) ==
  IF s = <<>> THEN NegInfinity
  ELSE LET m == MathMax(SubSeq(s, 1, Len(s) - 1))
           x == NumInt(s[Len(s)])
       IN  IF NumLess(m, x) THEN x ELSE m

\* mutant: the entry is set to 1 instead of being incremented
IncrementResets(m, k) == (k :> 1) @@ m

\* m[k] = (m[k] || 0) + 1
Increment(m, k) ==
  IF k \in DOMAIN m THEN [m EXCEPT ![k] = @ + 1] ELSE m @@ (k :> 1)

\* if (r.statusCode): the field is present and not 0
HasStatusCode(r) == r.statusCode # <<>> /\ r.statusCode[1] # 0

\* if (r.error): the field is present and not the empty string
HasError(r) == r.error # <<>> /\ r.error[1] # ""

RECURSIVE StatusCodeDistribution(_)
StatusCodeDistribution(rs) ==
  IF rs = <<>> THEN <<>>
  ELSE LET m == StatusCodeDistribution(SubSeq(rs, 1, Len(rs) - 1))
           r == rs[Len(rs)]
       IN  IF HasStatusCode(r) THEN Increment(m, r.statusCode[1]) ELSE m

RECURSIVE ErrorCounts(_)
ErrorCounts(rs) ==
  IF rs = <<>> THEN <<>>
  ELSE LET m == ErrorCounts(SubSeq(rs, 1, Len(rs) - 1))
           r == rs[Len(rs)]
       IN  IF HasError(r) THEN Increment(m, r.error[1]) ELSE m

IsSuccessful(r) == r.success
IsFailed(r) == ~r.success

\* mutant: the || 0 guard is missing
OrZeroMissing(x) == x

\* the || 0 guard of the summary's numeric fields
OrZero(x) == JsOr(x, NumInt(0))

calculateLoadTestSummary(rs, dur) ==
  LET responseTimes == [i \in 1..Len(rs) |-> rs[i].responseTime]
      successfulResults == SelectSeq(rs, IsSuccessful)
      failedResults == SelectSeq(rs, IsFailed)
  IN  [totalRequests |-> Len(rs),
       successfulRequests |-> Len(successfulResults),
       failedRequests |-> Len(failedResults),
       averageResponseTime |->
         OrZero(JsDiv(NumInt(SumSeq(responseTimes)), NumInt(Len(responseTimes)))),
       minResponseTime |-> OrZero(MathMin(responseTimes)),
       maxResponseTime |-> OrZero(MathMax(responseTimes)),
       requestsPerSecond |-> OrZero(JsDiv(NumInt(Len(rs)), dur)),
       duration |-> dur,
       statusCodeDistribution |-> StatusCodeDistribution(rs),
       errors |-> ErrorCounts(failedResults)]

----------------------------------------------------------------------------
(* runLoadTest: options and request queue *)

\* mutant: the default is missing
ConcurrencyNoDefault(opt) == opt

\* options.concurrency || 10 (0 stands for every falsy option value)
Concurrency(opt) == IF opt = 0 THEN DefaultConcurrency ELSE opt

\* options.requestsPerUrl || 1
RequestsPerUrl(opt) == IF opt = 0 THEN DefaultRequestsPerUrl ELSE opt

\* the two loops nested the other way round: all repetitions of a URL in a row
BuildQueueUrlMajor(us, n) ==
  [k \in 1..(Len(us) * n) |-> [url |-> us[((k - 1) \div n) + 1], index |-> (k - 1) % n]]

\* mutant: the loop over the repetitions is missing
BuildQueueOnePass(us, n) == [j \in 1..Len(us) |-> [url |-> us[j], index |-> 0]]

RECURSIVE BuildQueue(_, _)
\* for (i = 0; i < n; i++) urls.forEach(url => requestQueue.push({url, index: i}))
BuildQueue(us, n) ==
  IF n = 0 THEN <<>>
  ELSE BuildQueue(us, n - 1) \o [j \in 1..Len(us) |-> [url |-> us[j], index |-> n - 1]]

\* the scrape command has not been started
ScrapeIdle ==
  /\ visitedSitemaps = {}
  /\ stack = <<>>
  /\ fetched = <<>>
  /\ served = <<>>
  /\ extractedUrls = <<>>
  /\ spc = "idle"
  /\ scanI = 1
  /\ notFoundUrls = <<>>
  /\ heads = <<>>
  /\ scanLog = <<>>
  /\ notFoundFile = <<>>

NewRequest == [st |-> "none", startTime |-> 0, outcome |-> NoOutcome]

Idle(us, c, n, d) ==
  /\ urls = us
  /\ concurrency = c
  /\ requestsPerUrl = n
  /\ duration = d
  /\ requestQueue = BuildQueue(us, n)
  /\ results = <<>>
  /\ requestsMade = 0
  /\ testStartTime = 0
  /\ activeRequests = <<>>
  /\ req = [i \in DOMAIN BuildQueue(us, n) |-> NewRequest]
  /\ reacted = {}
  /\ idx = 1
  /\ pc = "loop"
  /\ awaited = {}
  /\ now = 0
  /\ testEndTime = 0
  /\ summary = <<>>

\* The state of runLoadTest on entering processQueue's loop (index.ts:348-377).
Init ==
  \E k \in 0..MaxQueue, optC \in 0..MaxConcurrency,
     optN \in 0..MaxQueue, d \in 0..MaxDuration :
    /\ k * RequestsPerUrl(optN) <= MaxQueue
    /\ Idle(UrlList(k), Concurrency(optC), RequestsPerUrl(optN), d)
    /\ ScrapeIdle

----------------------------------------------------------------------------
(* processQueue *)

Pending == {i \in DOMAIN req : req[i].st = "pending"}
Fulfilled == {i \in DOMAIN req : req[i].st = "fulfilled"}
Dispatched == {i \in DOMAIN req : req[i].st # "none"}

\* duration && (Date.now() - testStartTime) / 1000 >= duration
DurationExceeded(d, start, t) ==
  /\ d # 0
  /\ ~NumLess(JsDiv(NumInt(t - start), NumInt(MsPerSec)), NumInt(d))

\* mutant: the limit is compared with > instead of >=
AtCapacityOffByOne(active, c) == Len(active) > c

\* activeRequests.length >= concurrency
AtCapacity(active, c) == Len(active) >= c

\* index = activeRequests.indexOf(p); if (index > -1) activeRequests.splice(index, 1)
Splice(active, p) == SelectSeq(active, LAMBDA q : q # p)

SeqToSet(s) == {s[i] : i \in DOMAIN s}

\* a wait that does not wait
RaceSettledAtOnce(ps, done) == TRUE

\* Promise.race(ps) settles once the reactions of one settled member have run
RaceSettled(ps, done) == ps \cap done # {}

\* mutant: Promise.race where Promise.all is meant
AnySettled(ps, done) == ps = {} \/ ps \cap done # {}

\* Promise.all(ps) is fulfilled once the reactions of every member have run
AllSettled(ps, done) == ps \subseteq done

\* A promise job (microtask) or synchronous code is ready to run: it runs
\* before the event loop delivers another I/O completion or the clock moves.
JobReady ==
  \/ pc = "loop"
  \/ Fulfilled \ reacted # {}
  \/ pc = "race" /\ RaceSettled(awaited, reacted)
  \/ pc = "all" /\ AllSettled(awaited, reacted)

\* an iterator that steps over an item
NextItemSkips(i) == i + 2

\* the for-of iterator moves on to the following item (index.ts:377)
NextItem(i) == i + 1

\* index.ts:390-414: start the request of queue item i and track its promise
Dispatch(i) ==
  /\ req' = [req EXCEPT ![i] = [st |-> "pending", startTime |-> now, outcome |-> NoOutcome]]
  /\ activeRequests' = Append(activeRequests, i)
  /\ idx' = NextItem(i)

\* index.ts:377 the for-of loop is exhausted; 418 await Promise.all(activeRequests)
LoopEnd ==
  /\ pc = "loop"
  /\ idx > Len(requestQueue)
  /\ pc' = "all"
  /\ awaited' = SeqToSet(activeRequests)
  /\ UNCHANGED <<urls, concurrency, requestsPerUrl, duration, requestQueue, results,
                 requestsMade, testStartTime, activeRequests, req, reacted, idx, now,
                 testEndTime, summary>>
  /\ UNCHANGED scrapeVars

\* index.ts:379-382 break; 418 await Promise.all(activeRequests)
LoopBreak ==
  /\ pc = "loop"
  /\ idx <= Len(requestQueue)
  /\ DurationExceeded(duration, testStartTime, now)
  /\ pc' = "all"
  /\ awaited' = SeqToSet(activeRequests)
  /\ UNCHANGED <<urls, concurrency, requestsPerUrl, duration, requestQueue, results,
                 requestsMade, testStartTime, activeRequests, req, reacted, idx, now,
                 testEndTime, summary>>
  /\ UNCHANGED scrapeVars

\* index.ts:385-387 await Promise.race(activeRequests)
LoopWait ==
  /\ pc = "loop"
  /\ idx <= Len(requestQueue)
  /\ ~DurationExceeded(duration, testStartTime, now)
  /\ AtCapacity(activeRequests, concurrency)
  /\ pc' = "race"
  /\ awaited' = SeqToSet(activeRequests)
  /\ UNCHANGED <<urls, concurrency, requestsPerUrl, duration, requestQueue, results,
                 requestsMade, testStartTime, activeRequests, req, reacted, idx, now,
                 testEndTime, summary>>
  /\ UNCHANGED scrapeVars

\* index.ts:385 (below the limit), 390-414
LoopDispatch ==
  /\ pc = "loop"
  /\ idx <= Len(requestQueue)
  /\ ~DurationExceeded(duration, testStartTime, now)
  /\ ~AtCapacity(activeRequests, concurrency)
  /\ Dispatch(idx)
  /\ UNCHANGED <<urls, concurrency, requestsPerUrl, duration, requestQueue, results,
                 requestsMade, testStartTime, reacted, pc, awaited, now,
                 testEndTime, summary>>
  /\ UNCHANGED scrapeVars

\* index.ts:386 the race is settled and the loop resumes; 390-414
RaceResume ==
  /\ pc = "race"
  /\ RaceSettled(awaited, reacted)
  /\ Dispatch(idx)
  /\ pc' = "loop"
  /\ awaited' = {}
  /\ UNCHANGED <<urls, concurrency, requestsPerUrl, duration, requestQueue, results,
                 requestsMade, testStartTime, reacted, now, testEndTime, summary>>
  /\ UNCHANGED scrapeVars

\* the record put in front of the others
UnshiftResult(rs, r) == <<r>> \o rs

\* results.push(result) (index.ts:393)
PushResult(rs, r) == Append(rs, r)

\* index.ts:392-400: the GET of item i ends with outcome o; loadTestUrl's
\* result is pushed and the request promise is fulfilled
Complete(i, o) ==
  /\ ~JobReady
  /\ req[i].st = "pending"
  /\ results' = PushResult(results, loadTestUrl(requestQueue[i].url, req[i].startTime, o, now))
  /\ requestsMade' = requestsMade + 1
  /\ req' = [req EXCEPT ![i].st = "fulfilled", ![i].outcome = o]
  /\ UNCHANGED <<urls, concurrency, requestsPerUrl, duration, requestQueue,
                 testStartTime, activeRequests, reacted, idx, pc, awaited, now,
                 testEndTime, summary>>
  /\ UNCHANGED scrapeVars

\* index.ts:409-414: the reactions of request promise i run, the finally
\* callback first (it was registered first)
Finally(i) ==
  /\ req[i].st = "fulfilled"
  /\ i \notin reacted
  /\ activeRequests' = Splice(activeRequests, i)
  /\ reacted' = reacted \cup {i}
  /\ UNCHANGED <<urls, concurrency, requestsPerUrl, duration, requestQueue, results,
                 requestsMade, testStartTime, req, idx, pc, awaited, now,
                 testEndTime, summary>>
  /\ UNCHANGED scrapeVars

\* the wall clock advances while the event loop waits for I/O
Tick ==
  /\ ~JobReady
  /\ Pending # {}
  /\ now < MaxClock * MsPerSec
  /\ now' = now + MsPerSec
  /\ UNCHANGED <<urls, concurrency, requestsPerUrl, duration, requestQueue, results,
                 requestsMade, testStartTime, activeRequests, req, reacted, idx, pc,
                 awaited, testEndTime, summary>>
  /\ UNCHANGED scrapeVars

\* (testEndTime - testStartTime) / 1000
TestDuration(start, end) == JsDiv(NumInt(end - start), NumInt(MsPerSec))

\* index.ts:418-429: Promise.all is fulfilled; the summary is computed
Return ==
  /\ pc = "all"
  /\ AllSettled(awaited, reacted)
  /\ testEndTime' = now
  /\ summary' = <<calculateLoadTestSummary(results, TestDuration(testStartTime, now))>>
  /\ pc' = "returned"
  /\ awaited' = {}
  /\ UNCHANGED <<urls, concurrency, requestsPerUrl, duration, requestQueue, results,
                 requestsMade, testStartTime, activeRequests, req, reacted, idx, now>>
  /\ UNCHANGED scrapeVars

Next ==
  \/ LoopEnd
  \/ LoopBreak
  \/ LoopWait
  \/ LoopDispatch
  \/ RaceResume
  \/ \E i \in DOMAIN req, o \in Outcomes : Complete(i, o)
  \/ \E i \in DOMAIN req : Finally(i)
  \/ Tick
  \/ Return

Spec == Init /\ [][Next]_vars

\* Every promise job and every step of synchronous code is eventually run,
\* and every dispatched request eventually completes (response or timeout).
FairSpec ==
  /\ Spec
  /\ WF_vars(LoopEnd \/ LoopBreak \/ LoopWait \/ LoopDispatch \/ RaceResume \/ Return)
  /\ WF_vars(\E i \in DOMAIN req : Finally(i))
  /\ WF_vars(\E i \in DOMAIN req, o \in Outcomes : Complete(i, o))

----------------------------------------------------------------------------
(* The aggregator on its own: calculateLoadTestSummary applied to a result *)
(* collection and an elapsed time drawn from bounded sets.                 *)

SummaryInputs ==
  {loadTestUrl(Url(1), 0, o, t) : o \in AllOutcomes, t \in 0..MaxResponseTime}

ResultLists == UNION {[1..k -> SummaryInputs] : k \in 0..MaxResults}

InitSummary ==
  \E rs \in ResultLists, end \in 0..MaxClock :
    /\ urls = <<>>
    /\ concurrency = DefaultConcurrency
    /\ requestsPerUrl = DefaultRequestsPerUrl
    /\ duration = 0
    /\ requestQueue = <<>>
    /\ results = rs
    /\ requestsMade = Len(rs)
    /\ testStartTime = 0
    /\ activeRequests = <<>>
    /\ req = <<>>
    /\ reacted = {}
    /\ idx = 1
    /\ pc = "all"
    /\ awaited = {}
    /\ now = end * MsPerSec
    /\ testEndTime = 0
    /\ summary = <<>>
    /\ ScrapeIdle

SpecSummary == InitSummary /\ [][Return]_vars

----------------------------------------------------------------------------
(* Properties of calculateLoadTestSummary, checked under SpecSummary *)

ResponseTimesOf(rs) == {rs[i].responseTime : i \in DOMAIN rs}
IsLeast(x, S) == x \in S /\ \A y \in S : x <= y
IsGreatest(x, S) == x \in S /\ \A y \in S : y <= x

\* C8: minResponseTime and maxResponseTime are 0 for an empty result
\* collection, and otherwise the least and the greatest response time.
C8_MinMaxZeroWhenEmpty ==
  summary # <<>> =>
    LET s == summary[1]
    IN  IF results = <<>>
        THEN s.minResponseTime = NumInt(0) /\ s.maxResponseTime = NumInt(0)
        ELSE /\ \E x \in ResponseTimesOf(results) :
                  IsLeast(x, ResponseTimesOf(results)) /\ s.minResponseTime = NumInt(x)
             /\ \E x \in ResponseTimesOf(results) :
                  IsGreatest(x, ResponseTimesOf(results)) /\ s.maxResponseTime = NumInt(x)

\* C9: requestsPerSecond is |results| / elapsedSeconds when elapsedSeconds > 0,
\* and 0 when elapsedSeconds is 0, whether or not there are results.
C9_RequestsPerSecond ==
  summary # <<>> =>
    LET s == summary[1]
        elapsedMs == testEndTime - testStartTime
    IN  IF elapsedMs = 0
        THEN s.requestsPerSecond = NumInt(0)
        ELSE /\ IsFinite(s.requestsPerSecond)
             /\ s.requestsPerSecond.n * elapsedMs
                  = s.requestsPerSecond.d * Len(results) * MsPerSec

\* C10: averageResponseTime is the arithmetic mean of the response times
\* (mean * count = sum), and 0 for an empty result collection.
C10_AverageIsMean ==
  summary # <<>> =>
    LET s == summary[1]
        total == SumSeq([i \in DOMAIN results |-> results[i].responseTime])
    IN  IF results = <<>>
        THEN s.averageResponseTime = NumInt(0)
        ELSE /\ IsFinite(s.averageResponseTime)
             /\ s.averageResponseTime.n * Len(results) = s.averageResponseTime.d * total

\* a summary of at least two results whose mean is not a whole number
C10_Witness ==
  /\ summary # <<>>
  /\ Len(results) >= 2
  /\ summary[1].averageResponseTime.d > 1

----------------------------------------------------------------------------
(* Properties of runLoadTest, checked under Spec (C5 under FairSpec) *)

\* requests that have been dispatched and have not yet completed
Outstanding == Cardinality(Pending)

\* C1: at most `concurrency` requests are outstanding in every reachable
\* state, and an item is dispatched only when fewer than `concurrency`
\* requests are outstanding.
C1_BoundedOutstanding ==
  /\ [](Outstanding <= concurrency)
  /\ [][Dispatched' # Dispatched => Outstanding < concurrency]_vars

\* the scheduler is suspended with `concurrency` >= 2 requests outstanding
C1_Witness ==
  /\ pc = "race"
  /\ concurrency >= 2
  /\ Outstanding = concurrency

\* C2: without a duration cap runLoadTest returns exactly
\* requestsPerUrl * |urls| results, whatever the requests end in.
C2_AllResultsWithoutCap ==
  (pc = "returned" /\ duration = 0) => Len(results) = requestsPerUrl * Len(urls)

\* a run without cap returns three results: successes, failed statuses and transport failures
C2_Witness ==
  /\ pc = "returned"
  /\ duration = 0
  /\ Len(results) = 3
  /\ \E i, j, k \in DOMAIN results :
       /\ results[i].success
       /\ ~results[j].success /\ results[j].statusCode # <<>>
       /\ results[k].error # <<>>

\* C3: no queue item is dispatched at a moment when the elapsed time since
\* test start has already reached the duration cap.
C3_NoDispatchAfterCap ==
  \A i \in Dispatched : ~DurationExceeded(duration, testStartTime, req[i].startTime)

RECURSIVE CountUrl(_, _)
CountUrl(s, u) ==
  IF s = <<>> THEN 0
  ELSE CountUrl(SubSeq(s, 1, Len(s) - 1), u) + (IF s[Len(s)].url = u THEN 1 ELSE 0)

\* C4: when runLoadTest returns no request is in flight, results holds one
\* record for every dispatched request (as many records per URL as items of
\* that URL were dispatched), and the summary counts all of them.
C4_DrainedAtReturn ==
  pc = "returned" =>
    /\ Pending = {}
    /\ Len(results) = Cardinality(Dispatched)
    /\ \A u \in SeqToSet(urls) :
         CountUrl(results, u) = Cardinality({i \in Dispatched : requestQueue[i].url = u})
    /\ summary[1].totalRequests = Cardinality(Dispatched)

\* the run returned after the cap stopped dispatch, and a request that was in
\* flight when the cap elapsed contributed its result
C4_Witness ==
  /\ pc = "returned"
  /\ duration # 0
  /\ idx <= Len(requestQueue)
  /\ \E j \in DOMAIN results :
       /\ DurationExceeded(duration, testStartTime, results[j].timestamp)
       /\ ~DurationExceeded(duration, testStartTime,
                            results[j].timestamp - results[j].responseTime)

\* C5: if every dispatched request eventually completes, runLoadTest
\* eventually returns.
C5_EventuallyReturns == <>(pc = "returned")

\* a run with concurrency 1 that had to wait for a slot has returned
C5_Witness ==
  /\ pc = "returned"
  /\ concurrency = 1
  /\ Len(results) >= 2

\* the cap had elapsed at a moment when queue item i was not yet dispatched
CapElapsedBefore(i) ==
  IF req[i].st = "none"
  THEN DurationExceeded(duration, testStartTime, testEndTime)
  ELSE DurationExceeded(duration, testStartTime, req[i].startTime)

\* C6: when the duration cap elapses while some queue item is not yet
\* dispatched, the run returns fewer than |urls| * requestsPerUrl results.
C6_FewerResultsWhenCapHit ==
  (pc = "returned" /\ \E i \in DOMAIN req : CapElapsedBefore(i))
    => Len(results) < Len(urls) * requestsPerUrl

\* the record the claim expects for outcome o of a request to url started at t0
ExpectedRecord(url, t0, o, t) ==
  IF o.kind = "response"
  THEN [url |-> url, success |-> (200 <= o.status /\ o.status < 400),
        statusCode |-> <<o.status>>, responseTime |-> t - t0, error |-> <<>>,
        timestamp |-> t]
  ELSE [url |-> url, success |-> FALSE, statusCode |-> <<>>, responseTime |-> t - t0,
        error |-> <<o.message>>, timestamp |-> t]

\* C7: every request outcome becomes one result record (status s: success
\* iff 200 <= s < 400, statusCode s, no error; transport failure: no success,
\* no statusCode, the error's description), the scheduler goes on, and
\* without a cap every queue item is dispatched.
C7_OutcomeBecomesRecord ==
  /\ [][\A i \in DOMAIN req :
          (req[i].st = "pending" /\ req'[i].st = "fulfilled") =>
            /\ req'[i].outcome \in Outcomes
            /\ results' = Append(results,
                 ExpectedRecord(requestQueue[i].url, req[i].startTime, req'[i].outcome, now))
            /\ pc' = pc /\ idx' = idx]_vars
  /\ [](pc = "returned" /\ duration = 0 => Dispatched = DOMAIN requestQueue)

\* a failed status and a transport failure were recorded and the items after
\* them were still dispatched and recorded
C7_Witness ==
  /\ pc = "returned"
  /\ Len(results) = 3
  /\ results[1].error # <<>>
  /\ results[2].statusCode = <<404>> /\ ~results[2].success
  /\ results[3].statusCode = <<200>> /\ results[3].success

RECURSIVE SumCounts(_)
\* the sum of the counts of a histogram
SumCounts(m) ==
  IF DOMAIN m = {} THEN 0
  ELSE LET k == CHOOSE x \in DOMAIN m : TRUE
       IN  m[k] + SumCounts([x \in DOMAIN m \ {k} |-> m[x]])

WithStatus(rs) == {i \in DOMAIN rs : rs[i].statusCode # <<>>}

\* C11: statusCodeDistribution maps each status code s to the number of
\* results whose statusCode is s; results without a status code add to no
\* entry, so the counts sum to the number of results with a status code.
C11_StatusHistogram ==
  summary # <<>> =>
    LET d == summary[1].statusCodeDistribution
    IN  /\ DOMAIN d = {results[i].statusCode[1] : i \in WithStatus(results)}
        /\ \A s \in DOMAIN d :
             d[s] = Cardinality({i \in DOMAIN results : results[i].statusCode = <<s>>})
        /\ SumCounts(d) = Cardinality(WithStatus(results))

\* a summary of one response and one transport failure
C11_Witness ==
  /\ summary # <<>>
  /\ Len(results) = 2
  /\ Cardinality(WithStatus(results)) = 1
  /\ SumCounts(summary[1].statusCodeDistribution) = 1

FailedWithError(rs) == {i \in DOMAIN rs : ~rs[i].success /\ rs[i].error # <<>>}

\* C12: errors maps each error description e to the number of failed
\* results whose error is e; every failed result with an error description is
\* counted, and a failed result with a status code and no error description
\* is in no entry.
C12_ErrorHistogram ==
  summary # <<>> =>
    LET m == summary[1].errors
    IN  /\ DOMAIN m = {results[i].error[1] : i \in FailedWithError(results)}
        /\ \A e \in DOMAIN m :
             m[e] = Cardinality({i \in FailedWithError(results) : results[i].error = <<e>>})
        /\ SumCounts(m) = Cardinality(FailedWithError(results))

\* ---------------------------------------------------------------------------
\* The sitemap resolver: extractUrlsFromSitemap (index.ts:37-120)
\* ---------------------------------------------------------------------------

\* the longest list of entries a served document holds
MaxEntries == 2

\* URLs are tuples of characters, so that a suffix is something to compute
SitemapA == <<"a", ".", "x", "m", "l">>
SitemapB == <<"b", ".", "x", "m", "l">>
PageP == <<"p">>
\* a page whose URL contains ".xml" without ending in it
PageQ == <<"q", ".", "x", "m", "l", "/">>

SitemapUrls == {SitemapA, SitemapB}
PageUrls == {PageP, PageQ}

\* the sitemap the scrape command is given (index.ts:224, 237)
RootSitemap == SitemapA

\* a mistaken suffix test: the whole string is compared
EndsWithWhole(s, suffix) == s = suffix

\* String.prototype.endsWith (index.ts:68, 95)
EndsWith(s, suffix) ==
  /\ Len(s) >= Len(suffix)
  /\ SubSeq(s, Len(s) - Len(suffix) + 1, Len(s)) = suffix

XmlSuffix == <<".", "x", "m", "l">>

\* One <sitemap> or <url> entry as xml2js delivers it: loc[0] is a string, is
\* absent or empty (falsy at index.ts:64, 91), or is an object, which is what
\* a <loc> element carrying attributes parses to (truthy, without endsWith).
Loc(t) == [kind |-> "string", text |-> t]
MissingLoc == [kind |-> "missing", text |-> <<>>]
ObjectLoc == [kind |-> "object", text |-> <<>>]

Entries == {Loc(t) : t \in SitemapUrls \cup PageUrls} \cup {MissingLoc, ObjectLoc}

EntryLists == UNION {[1..k -> Entries] : k \in 1..MaxEntries}

\* What one axios.get followed by parseXML ends in (index.ts:47-55): the
\* request fails, the body does not parse, or the parsed object has the key
\* sitemapIndex with a sitemap array, the key urlset with a url array, or
\* neither.
Failure(k) == [root |-> k, entries |-> <<>>]
EmptyDocument == [root |-> "other", entries |-> <<>>]
Docs ==
  {Failure("fetchError"), Failure("parseError"), EmptyDocument}
    \cup {[root |-> r, entries |-> es] : r \in {"sitemapIndex", "urlset"}, es \in EntryLists}

IsFailure(doc) == doc.root \in {"fetchError", "parseError"}

\* the array the loops at index.ts:63 and 90 run over
EntriesOf(doc) == IF doc.root \in {"sitemapIndex", "urlset"} THEN doc.entries ELSE <<>>

\* a guard that never finds the URL
AlreadyProcessedNever(visited, u) == FALSE

\* visitedSitemaps.has(sitemapUrl) (index.ts:38)
AlreadyProcessed(visited, u) == u \in visited

\* a set that remembers only the sitemap added last
AddVisitedKeepsLast(visited, u) == {u}

\* visitedSitemaps.add(sitemapUrl) (index.ts:43)
AddVisited(visited, u) == visited \cup {u}

\* one call of extractUrlsFromSitemap, waiting for its document or in its loop
NewFrame(u) == [sitemapUrl |-> u, phase |-> "get", entries |-> <<>>, i |-> 1, urls |-> <<>>]

Top == stack[Len(stack)]

\* the child's URLs put in front of the caller's
PushFront(list, v) == v \o list

\* urls.push(...childUrls) (index.ts:75, 102)
Push(list, v) == list \o v

\* the stack once the innermost call has returned v: the caller spreads v
\* onto its urls and goes on to its next entry (index.ts:74-75, 101-102)
Returned(stk, v) ==
  IF Len(stk) = 1
    THEN <<>>
    ELSE LET caller == stk[Len(stk) - 1] IN
         Append(SubSeq(stk, 1, Len(stk) - 2),
                [caller EXCEPT !.urls = Push(@, v), !.i = @ + 1])

\* return v from the innermost call; the outermost one hands it to the
\* scrape command (index.ts:237)
Finish(v) ==
  /\ stack' = Returned(stack, v)
  /\ IF Len(stack) = 1
       THEN extractedUrls' = v /\ spc' = "resolved"
       ELSE UNCHANGED <<extractedUrls, spc>>

\* a handler that lets the error go on to the caller
CatchRethrows == [raised |-> TRUE, value |-> <<>>]

\* a handler that reports the sitemap it failed on as its only URL
CatchReturnsUrl == [raised |-> FALSE, value |-> <<Top.sitemapUrl>>]

\* the catch block: log, return [] (index.ts:115-119)
CatchResult == [raised |-> FALSE, value |-> <<>>]

\* something was thrown inside the try block of the innermost call
Caught ==
  IF CatchResult.raised
    THEN stack' = <<>> /\ spc' = "raised" /\ UNCHANGED extractedUrls
    ELSE Finish(CatchResult.value)

ScanIdle ==
  /\ scanI = 1
  /\ notFoundUrls = <<>>
  /\ heads = <<>>
  /\ scanLog = <<>>
  /\ notFoundFile = <<>>

scanVars == <<scanI, notFoundUrls, heads, scanLog, notFoundFile>>

\* the scrape command is about to call the resolver with a new Set
InitSitemap ==
  /\ Idle(<<>>, DefaultConcurrency, DefaultRequestsPerUrl, 0)
  /\ visitedSitemaps = {}
  /\ stack = <<>>
  /\ fetched = <<>>
  /\ served = <<>>
  /\ extractedUrls = <<>>
  /\ spc = "start"
  /\ ScanIdle

\* index.ts:237, 38-44 the outermost call
SitemapStart ==
  /\ spc = "start"
  /\ IF AlreadyProcessed(visitedSitemaps, RootSitemap)
       THEN /\ extractedUrls' = <<>>
            /\ spc' = "resolved"
            /\ UNCHANGED <<visitedSitemaps, stack>>
       ELSE /\ visitedSitemaps' = AddVisited(visitedSitemaps, RootSitemap)
            /\ stack' = <<NewFrame(RootSitemap)>>
            /\ spc' = "resolving"
            /\ UNCHANGED extractedUrls
  /\ UNCHANGED <<fetched, served>>
  /\ UNCHANGED scanVars
  /\ UNCHANGED loadVars

\* index.ts:47-62, 86-89 the request of the innermost call ends in doc
SitemapGet(doc) ==
  /\ spc = "resolving"
  /\ Top.phase = "get"
  /\ fetched' = Append(fetched, Top.sitemapUrl)
  /\ served' = Append(served, doc)
  /\ IF IsFailure(doc)
       THEN Caught
       ELSE /\ stack' = [stack EXCEPT ![Len(stack)] =
                           [@ EXCEPT !.phase = "loop", !.entries = EntriesOf(doc)]]
            /\ UNCHANGED <<extractedUrls, spc>>
  /\ UNCHANGED visitedSitemaps
  /\ UNCHANGED scanVars
  /\ UNCHANGED loadVars

\* index.ts:63-83, 90-110 one turn of the loop over the entries; a child
\* sitemap that was visited returns [] at once (index.ts:38-41)
SitemapLoc ==
  /\ spc = "resolving"
  /\ Top.phase = "loop"
  /\ Top.i <= Len(Top.entries)
  /\ LET e == Top.entries[Top.i]
         next(f) == [stack EXCEPT ![Len(stack)] = f] IN
     CASE e.kind = "missing" ->
            /\ stack' = next([Top EXCEPT !.i = @ + 1])
            /\ UNCHANGED <<visitedSitemaps, extractedUrls, spc>>
       [] e.kind = "object" ->
            /\ Caught
            /\ UNCHANGED visitedSitemaps
       [] e.kind = "string" /\ ~EndsWith(e.text, XmlSuffix) ->
            /\ stack' = next([Top EXCEPT !.i = @ + 1, !.urls = Append(@, e.text)])
            /\ UNCHANGED <<visitedSitemaps, extractedUrls, spc>>
       [] e.kind = "string" /\ EndsWith(e.text, XmlSuffix) ->
            IF AlreadyProcessed(visitedSitemaps, e.text)
              THEN /\ stack' = next([Top EXCEPT !.i = @ + 1])
                   /\ UNCHANGED <<visitedSitemaps, extractedUrls, spc>>
              ELSE /\ visitedSitemaps' = AddVisited(visitedSitemaps, e.text)
                   /\ stack' = Append(stack, NewFrame(e.text))
                   /\ UNCHANGED <<extractedUrls, spc>>
  /\ UNCHANGED <<fetched, served>>
  /\ UNCHANGED scanVars
  /\ UNCHANGED loadVars

\* index.ts:113-114 the loop is over
SitemapDone ==
  /\ spc = "resolving"
  /\ Top.phase = "loop"
  /\ Top.i > Len(Top.entries)
  /\ Finish(Top.urls)
  /\ UNCHANGED <<visitedSitemaps, fetched, served>>
  /\ UNCHANGED scanVars
  /\ UNCHANGED loadVars

NextSitemap ==
  \/ SitemapStart
  \/ \E doc \in Docs : SitemapGet(doc)
  \/ SitemapLoc
  \/ SitemapDone

SpecSitemap == InitSitemap /\ [][NextSitemap]_vars

\* every request ends (timeout: 15000) and the code between awaits runs
FairSitemap == SpecSitemap /\ WF_vars(NextSitemap)

\* ---------------------------------------------------------------------------
\* The reachability check: checkPageExist (index.ts:138-154) and the scan loop
\* of the scrape command (index.ts:244-267)
\* ---------------------------------------------------------------------------

\* the longest list of page URLs the scan is started on
MaxScanUrls == 3

NotFound == 404

\* What await axios.head ends in (index.ts:140): it resolves, or it rejects
\* with an AxiosError that carries the response's status, with an AxiosError
\* without a response (timeout, refused connection), or with something else.
Resolved(s) == [resolved |-> TRUE, isAxiosError |-> FALSE, status |-> <<s>>]
Rejected(ax, st) == [resolved |-> FALSE, isAxiosError |-> ax, status |-> st]

HeadOutcomes ==
  {Resolved(200), Rejected(TRUE, <<404>>), Rejected(TRUE, <<500>>),
   Rejected(TRUE, <<>>), Rejected(FALSE, <<>>)}

Returns(b) == [returned |-> TRUE, value |-> b]
Throws == [returned |-> FALSE, value |-> FALSE]

\* a check that takes every error response for a missing page
checkPageExistAnyStatus(o) ==
  IF o.resolved
    THEN Returns(TRUE)
    ELSE IF o.isAxiosError /\ o.status # <<>> THEN Returns(FALSE) ELSE Throws

\* index.ts:138-154
checkPageExist(o) ==
  IF o.resolved
    THEN Returns(TRUE)
    ELSE IF o.isAxiosError /\ o.status = <<NotFound>> THEN Returns(FALSE) ELSE Throws

\* a loop body that lists the URL whenever the check did not say true
RecordUnlessTrue(list, url, r) == IF r.returned /\ r.value THEN list ELSE Append(list, url)

\* index.ts:251-254 the URL is listed when the check returned false
Record(list, url, r) == IF r.returned /\ ~r.value THEN Append(list, url) ELSE list

\* index.ts:254, 256, 259 the console line of one turn of the loop
Verdict(r) == IF ~r.returned THEN "Error" ELSE IF r.value THEN "OK" ELSE "404 Not Found"

ScanLists == UNION {[1..k -> PageUrls] : k \in 0..MaxScanUrls}

\* the scrape command has resolved a sitemap that lists us and starts to scan
InitScan ==
  \E us \in ScanLists :
    /\ Idle(<<>>, DefaultConcurrency, DefaultRequestsPerUrl, 0)
    /\ visitedSitemaps = {RootSitemap}
    /\ stack = <<>>
    /\ fetched = <<RootSitemap>>
    /\ served = <<IF us = <<>> THEN EmptyDocument
                  ELSE [root |-> "urlset", entries |-> [j \in DOMAIN us |-> Loc(us[j])]]>>
    /\ extractedUrls = us
    /\ spc = "scanning"
    /\ ScanIdle

resolverVars == <<visitedSitemaps, stack, fetched, served, extractedUrls>>

\* index.ts:248-263 one turn of the loop: the HEAD request ends in o
ScanProbe(o) ==
  /\ spc = "scanning"
  /\ scanI <= Len(extractedUrls)
  /\ LET url == extractedUrls[scanI]
         r == checkPageExist(o) IN
     /\ heads' = Append(heads, [url |-> url, outcome |-> o, result |-> r])
     /\ notFoundUrls' = Record(notFoundUrls, url, r)
     /\ scanLog' = Append(scanLog, [url |-> url, verdict |-> Verdict(r)])
  /\ scanI' = scanI + 1
  /\ UNCHANGED <<spc, notFoundFile>>
  /\ UNCHANGED resolverVars
  /\ UNCHANGED loadVars

\* index.ts:266-267 the loop is over: output/404-pages.json is written
ScanWrite ==
  /\ spc = "scanning"
  /\ scanI > Len(extractedUrls)
  /\ notFoundFile' = <<notFoundUrls>>
  /\ spc' = "scanned"
  /\ UNCHANGED <<scanI, notFoundUrls, heads, scanLog>>
  /\ UNCHANGED resolverVars
  /\ UNCHANGED loadVars

NextScan ==
  \/ \E o \in HeadOutcomes : ScanProbe(o)
  \/ ScanWrite

SpecScan == InitScan /\ [][NextScan]_vars

----------------------------------------------------------------------------
(* Claims about the sitemap resolver *)

Range(f) == {f[i] : i \in DOMAIN f}

Occurrences(f, x) == Cardinality({i \in DOMAIN f : f[i] = x})

\* C13: started with an empty visited set, the resolver terminates on every
\* sitemap graph, cyclic or self-referencing ones included, and no sitemap URL
\* is requested more than once during the run.
C13_TerminatesFetchingOnce ==
  /\ <>(spc = "resolved")
  /\ [](\A u \in Range(fetched) : Occurrences(fetched, u) = 1)

\* resolved over a cycle: a.xml lists b.xml and itself, b.xml lists a.xml
C13_Witness ==
  /\ spc = "resolved"
  /\ fetched = <<SitemapA, SitemapB>>
  /\ {Loc(SitemapA), Loc(SitemapB)} \subseteq Range(EntriesOf(served[1]))
  /\ Loc(SitemapA) \in Range(EntriesOf(served[2]))

\* the last four characters are ".xml"
HasXmlEnding(u) ==
  /\ Len(u) >= 4
  /\ <<u[Len(u) - 3], u[Len(u) - 2], u[Len(u) - 1], u[Len(u)]>> = <<".", "x", "m", "l">>

\* the entries a call has dealt with so far
Passed(f) == {f.entries[j] : j \in 1..(f.i - 1)}

\* C14: no element of the list the resolver returns ends in ".xml"; a
\* location ending in ".xml" that a call has passed was taken as a nested
\* sitemap (it is in the visited set) and is in no call's list of pages,
\* under either root key.
C14_NoXmlEmitted ==
  /\ \A i \in DOMAIN extractedUrls : ~HasXmlEnding(extractedUrls[i])
  /\ \A k \in DOMAIN stack :
       /\ \A i \in DOMAIN stack[k].urls : ~HasXmlEnding(stack[k].urls[i])
       /\ \A e \in Passed(stack[k]) :
            e.kind = "string" /\ HasXmlEnding(e.text) => e.text \in visitedSitemaps

\* an index document and a urlset document that each list a sitemap and a page
C14_Witness ==
  /\ spc = "resolved"
  /\ Len(served) = 2
  /\ served[1] = [root |-> "sitemapIndex", entries |-> <<Loc(SitemapB), Loc(PageQ)>>]
  /\ served[2] = [root |-> "urlset", entries |-> <<Loc(SitemapA), Loc(PageP)>>]
  /\ extractedUrls = <<PageP, PageQ>>

\* the document a sitemap URL was answered with during the run
DocAt(u) ==
  IF u \in Range(fetched)
    THEN served[CHOOSE i \in DOMAIN fetched : fetched[i] = u]
    ELSE EmptyDocument

\* the run's documents, with every failed one replaced by an empty document
Healed(u) == IF IsFailure(DocAt(u)) THEN EmptyDocument ELSE DocAt(u)

\* The depth-first flattening of the graph whose documents are given by
\* world: a location contributes itself if it is a page, the flattening of
\* the sitemap it names if that sitemap was not met before, and everything
\* an earlier location contributes comes before what a later one does. A
\* document that fails, or holds an entry that cannot be read, contributes
\* nothing.
RECURSIVE FlattenNode(_, _, _)
RECURSIVE FlattenLocs(_, _, _)
FlattenNode(world, u, met) ==
  IF u \in met
    THEN [urls |-> <<>>, met |-> met]
    ELSE IF IsFailure(world[u])
      THEN [urls |-> <<>>, met |-> met \cup {u}]
      ELSE LET r == FlattenLocs(world, world[u].entries, met \cup {u}) IN
           [urls |-> IF r.failed THEN <<>> ELSE r.urls, met |-> r.met]

FlattenLocs(world, es, met) ==
  IF es = <<>>
    THEN [urls |-> <<>>, met |-> met, failed |-> FALSE]
    ELSE LET e == Head(es) IN
         CASE e.kind = "object" -> [urls |-> <<>>, met |-> met, failed |-> TRUE]
           [] e.kind = "missing" -> FlattenLocs(world, Tail(es), met)
           [] e.kind = "string" ->
                LET first == IF HasXmlEnding(e.text)
                               THEN FlattenNode(world, e.text, met)
                               ELSE [urls |-> <<e.text>>, met |-> met]
                    rest == FlattenLocs(world, Tail(es), first.met)
                IN [urls |-> first.urls \o rest.urls, met |-> rest.met,
                    failed |-> rest.failed]

\* C15: the list the resolver returns is the depth-first, in-document-order
\* flattening of the sitemap graph it was served.
C15_DepthFirstInOrder ==
  spc = "resolved" =>
    extractedUrls = FlattenNode([u \in SitemapUrls |-> DocAt(u)], RootSitemap, {}).urls

\* the nested sitemap's two pages come before the page listed after it
C15_Witness ==
  /\ spc = "resolved"
  /\ Len(served) = 2
  /\ served[1].entries = <<Loc(SitemapB), Loc(PageP)>>
  /\ served[2].entries = <<Loc(PageQ), Loc(PageP)>>
  /\ extractedUrls = <<PageQ, PageP, PageP>>

\* the request or the parse of a nested sitemap fails in this step
NestedFailure ==
  /\ Len(stack) >= 2
  /\ Len(served') = Len(served) + 1
  /\ IsFailure(served'[Len(served')])

\* C16: when the fetch or the parse of a nested sitemap fails, the node adds
\* nothing to its caller's list, the caller goes on with its next location,
\* and the list returned in the end is that of a run in which every failed
\* node was an empty document.
C16_FailureIsolated ==
  /\ [][NestedFailure =>
          /\ spc' = "resolving"
          /\ stack' = Append(SubSeq(stack, 1, Len(stack) - 2),
                             [stack[Len(stack) - 1] EXCEPT !.i = @ + 1])]_vars
  /\ [](spc = "resolved" =>
          extractedUrls = FlattenNode([u \in SitemapUrls |-> Healed(u)], RootSitemap, {}).urls)

\* b.xml fails; the page listed after it in a.xml is still returned
C16_Witness ==
  /\ spc = "resolved"
  /\ Len(served) = 2
  /\ served[1].entries = <<Loc(SitemapB), Loc(PageP)>>
  /\ IsFailure(served[2])
  /\ extractedUrls = <<PageP>>

\* C17: the resolver never raises past its boundary: whatever fails, the
\* outermost call is still running or has completed with a list of page URLs.
C17_NeverRaises ==
  /\ spc \in {"start", "resolving", "resolved"}
  /\ spc = "resolving" => stack # <<>>
  /\ spc = "resolved" =>
       /\ stack = <<>>
       /\ \A i \in DOMAIN extractedUrls : extractedUrls[i] \in PageUrls

\* a nested parse failure, then an unreadable entry in the root document
C17_Witness ==
  /\ spc = "resolved"
  /\ Len(served) = 2
  /\ served[1].entries = <<Loc(SitemapB), ObjectLoc>>
  /\ served[2] = Failure("parseError")
  /\ extractedUrls = <<>>

----------------------------------------------------------------------------
(* Claims about the reachability check *)

ProbeOk(h) == h.outcome.resolved
Probe404(h) == ~h.outcome.resolved /\ h.outcome.status = <<404>>

\* C18: checkPageExist returns true when the HEAD request succeeds, returns
\* false when it fails with status 404, and throws for every other failure.
C18_ThreeOutcomes ==
  \A i \in DOMAIN heads :
    LET h == heads[i] IN
    /\ ProbeOk(h) => h.result = [returned |-> TRUE, value |-> TRUE]
    /\ Probe404(h) => h.result = [returned |-> TRUE, value |-> FALSE]
    /\ ~ProbeOk(h) /\ ~Probe404(h) => ~h.result.returned

\* one probe of each kind: a success, a 404 and a server error
C18_Witness ==
  /\ Len(heads) = 3
  /\ ProbeOk(heads[1])
  /\ Probe404(heads[2])
  /\ heads[3].outcome = Rejected(TRUE, <<500>>)
  /\ ~heads[3].result.returned

\* the URLs of the probes that came back with 404, in the order probed
RECURSIVE UrlsOf404(_)
UrlsOf404(hs) ==
  IF hs = <<>> THEN <<>>
  ELSE IF Probe404(Head(hs)) THEN <<Head(hs).url>> \o UrlsOf404(Tail(hs))
  ELSE UrlsOf404(Tail(hs))

\* C19: the scan probes the URLs one at a time in list order, each exactly
\* once; a failure other than 404 is logged neither as 404 nor as OK and the
\* scan goes on; the list written at the end is exactly the URLs whose probe
\* came back with 404, in list order.
C19_ScanProbesAllInOrder ==
  /\ [][Len(heads') <= Len(heads) + 1]_vars
  /\ [](/\ Len(heads) = scanI - 1
        /\ Len(heads) <= Len(extractedUrls)
        /\ Len(scanLog) = Len(heads)
        /\ \A i \in DOMAIN heads :
             /\ heads[i].url = extractedUrls[i]
             /\ scanLog[i].url = extractedUrls[i]
             /\ scanLog[i].verdict = "404 Not Found" <=> Probe404(heads[i])
             /\ scanLog[i].verdict = "OK" <=> ProbeOk(heads[i])
        /\ notFoundUrls = UrlsOf404(heads)
        /\ spc = "scanned" =>
             /\ Len(heads) = Len(extractedUrls)
             /\ notFoundFile = <<UrlsOf404(heads)>>)

\* a timeout on the first URL, then a 404 and a success on the next two
C19_Witness ==
  /\ spc = "scanned"
  /\ extractedUrls = <<PageP, PageQ, PageP>>
  /\ heads[1].outcome = Rejected(TRUE, <<>>)
  /\ Probe404(heads[2])
  /\ ProbeOk(heads[3])
  /\ notFoundFile = <<<<PageQ>>>>

----------------------------------------------------------------------------
(* Claims about the order of dispatch and of results *)

\* one request at a time and no duration cap
Serial == concurrency = 1 /\ duration = 0

\* C21: with concurrency 1 and no duration cap the i-th record of results
\* belongs to the i-th queue item: the request that completes is the one whose
\* number is the new length of results, and an item is dispatched only when
\* the results of all items before it have been appended.
C21_SerialResultsInQueueOrder ==
  /\ [](Serial =>
          \A i \in DOMAIN results :
            /\ req[i].st = "fulfilled"
            /\ results[i] = loadTestUrl(requestQueue[i].url, req[i].startTime,
                                        req[i].outcome, results[i].timestamp))
  /\ [][Serial =>
          /\ Len(results') = Len(results) + 1 =>
               /\ req[Len(results')].st = "pending"
               /\ req'[Len(results')].st = "fulfilled"
          /\ idx' = idx + 1 => Len(results) = idx - 1]_vars

\* three items, one at a time: a response, a failure, a response
C21_Witness ==
  /\ Serial
  /\ pc = "returned"
  /\ Len(requestQueue) = 3
  /\ Len(results) = 3
  /\ results[1].statusCode = <<200>>
  /\ results[2].error # <<>>
  /\ results[3].statusCode = <<404>>

\* request i completes in this step
Completes(i) == req[i].st = "pending" /\ req'[i].st = "fulfilled"

\* C22: results is ordered by completion: a record is only ever added at the
\* end, at the moment its request completes, one record per completion, and
\* the records already there keep their places; so the record of a request
\* that completes earlier precedes the record of one that completes later.
C22_ResultsInCompletionOrder ==
  [][/\ \A i \in DOMAIN req :
          Completes(i) =>
            /\ Len(results') = Len(results) + 1
            /\ SubSeq(results', 1, Len(results)) = results
            /\ results'[Len(results')].url = requestQueue[i].url
            /\ \A j \in DOMAIN req \ {i} : ~Completes(j)
     /\ results' # results => \E i \in DOMAIN req : Completes(i)]_vars

\* two requests in flight together, the second item's record comes first
C22_Witness ==
  /\ concurrency >= 2
  /\ Len(requestQueue) >= 2
  /\ requestQueue[1].url # requestQueue[2].url
  /\ Len(results) >= 2
  /\ results[1].url = requestQueue[2].url
  /\ results[2].url = requestQueue[1].url

----------------------------------------------------------------------------
(* The request queue, with several URLs repeated several times *)

\* the longest request queue of this specification
MaxItems == 4

\* runLoadTest entering processQueue's loop with one request at a time
InitQueue ==
  \E k \in 0..MaxItems, optN \in 0..MaxItems, d \in 0..MaxDuration :
    /\ k * RequestsPerUrl(optN) <= MaxItems
    /\ Idle(UrlList(k), Concurrency(1), RequestsPerUrl(optN), d)
    /\ ScrapeIdle

SpecQueue == InitQueue /\ [][Next]_vars

\* C23: the request queue is complete before the first dispatch and is never
\* modified: it has |urls| * requestsPerUrl items, and item number
\* i * |urls| + j (counted from 0) is (urls[j], i).
C23_QueueBuiltUpFront ==
  /\ [](/\ Len(requestQueue) = Len(urls) * requestsPerUrl
        /\ \A i \in 0..(requestsPerUrl - 1), j \in 0..(Len(urls) - 1) :
             requestQueue[i * Len(urls) + j + 1] = [url |-> urls[j + 1], index |-> i])
  /\ [][requestQueue' = requestQueue]_vars

\* two URLs requested twice each, all four dispatched and answered
C23_Witness ==
  /\ pc = "returned"
  /\ Len(urls) = 2
  /\ requestsPerUrl = 2
  /\ Len(results) = 4
  /\ requestQueue[2] = [url |-> urls[2], index |-> 0]
  /\ requestQueue[3] = [url |-> urls[1], index |-> 1]

----------------------------------------------------------------------------
(* The visited set *)

\* the innermost call is at a location that names a sitemap met before
Revisit ==
  /\ spc = "resolving"
  /\ Top.phase = "loop"
  /\ Top.i <= Len(Top.entries)
  /\ Top.entries[Top.i].kind = "string"
  /\ HasXmlEnding(Top.entries[Top.i].text)
  /\ Top.entries[Top.i].text \in visitedSitemaps

\* the sitemaps whose call has requested its document, or is about to
Entered == Range(fetched) \cup {stack[k].sitemapUrl : k \in DOMAIN stack}

\* C24: the visited set is a cycle guard, not a cache of results: a reference
\* to a sitemap met before, whether that visit succeeded, failed or is still
\* running further up, requests nothing and adds nothing to the caller's list,
\* and the caller goes on; the set holds every sitemap ever entered, so none
\* is requested a second time.
C24_VisitedIsCycleGuard ==
  /\ [][Revisit =>
          /\ fetched' = fetched
          /\ visitedSitemaps' = visitedSitemaps
          /\ stack' = [stack EXCEPT ![Len(stack)].i = @ + 1]]_vars
  /\ [](/\ Entered \subseteq visitedSitemaps
        /\ Range(fetched) \subseteq visitedSitemaps
        /\ Len(fetched) = Cardinality(Range(fetched)))

\* b.xml is listed twice and lists a.xml, which is still running: b.xml's
\* page is returned once
C24_Witness ==
  /\ spc = "resolved"
  /\ fetched = <<SitemapA, SitemapB>>
  /\ served[1].entries = <<Loc(SitemapB), Loc(SitemapB)>>
  /\ served[2].entries = <<Loc(SitemapA), Loc(PageP)>>
  /\ extractedUrls = <<PageP>>

----------------------------------------------------------------------------
(* Dispatch order *)

\* item i is dispatched in this step
Dispatches(i) == req[i].st = "none" /\ req'[i].st # "none"

\* C25: items are dispatched strictly in queue order: the dispatched items
\* are always the first idx - 1 items of the queue, a step dispatches at most
\* the one item that follows them, and an item once dispatched is not
\* dispatched again.
C25_DispatchedIsPrefix ==
  /\ [](/\ Dispatched = 1..(idx - 1)
        /\ idx <= Len(requestQueue) + 1
        /\ \A a, b \in DOMAIN activeRequests :
             activeRequests[a] = activeRequests[b] => a = b)
  /\ [][\A i \in DOMAIN req :
          /\ Dispatches(i) =>
               /\ Dispatched = 1..(i - 1)
               /\ req'[i].st = "pending"
               /\ \A j \in DOMAIN req \ {i} : ~Dispatches(j)
          /\ req[i].st # "none" =>
               /\ req'[i].st # "none"
               /\ req[i].st = "fulfilled" => req'[i].st = "fulfilled"
               /\ req'[i].startTime = req[i].startTime]_vars

\* the second item has completed while the first is in flight, and the third
\* item has been dispatched after them
C25_Witness ==
  /\ Len(requestQueue) = 3
  /\ idx = 4
  /\ req[1].st = "pending"
  /\ req[2].st = "fulfilled"
  /\ req[3].st = "pending"

----------------------------------------------------------------------------
(* The summary's totals *)

\* C26: the summary's totalRequests is the number of results and the sum of
\* successfulRequests and failedRequests, and every result is counted exactly
\* once across statusCodeDistribution and errors.
C26_TotalsAddUp ==
  summary # <<>> =>
    LET s == summary[1] IN
    /\ s.totalRequests = Len(results)
    /\ s.totalRequests = s.successfulRequests + s.failedRequests
    /\ SumCounts(s.statusCodeDistribution) + SumCounts(s.errors) = s.totalRequests

====
